---- MODULE Spec2Model ----
(***************************************************************************)
(* Model of codebase/entity_connexion.py: the module-level account to      *)
(* account-holder mapping and the EntityConnexion pipeline                 *)
(* (get_accounts, get_transactions, plot_arrows).                          *)
(*                                                                         *)
(* A pandas DataFrame is a record [is_none, columns, rows]: columns is the *)
(* set of column labels and rows a sequence of records whose fields are    *)
(* exactly the columns.  Numeric NaN is the integer NaN (database ids are  *)
(* positive), a missing text is the empty tuple NoText, every other text   *)
(* is a non-empty tuple.                                                   *)
(***************************************************************************)
EXTENDS Integers, Sequences, FiniteSets, TLC

\* ---------------------------------------------------------------- bounds
MaxAccount == 3
MaxHolder == 2
MaxRows == 2
MaxAmount == 2
MaxStar == 42

\* ------------------------------------------------------------- constants
NodeLimit == 40

NaN == 0
NoText == <<>>
Unknown == <<"unknown">>
FillId == 0 - 1

\* ids of the registry: accounts 1.., holders 11.., one company number, and
\* the accounts 101.. that exist only as counterparties of star-shaped ledgers
AccountIds == 1..MaxAccount
HolderIds == 11..(10 + MaxHolder)
CompanyIds == {21}
StarAccount(i) == 100 + i

EntityTypeAccount == "Account"
EntityTypeAccountHolder == "AccountHolder"
EntityTypeCompany == "Company"

sides == <<"transferring", "acquiring">>

\* ------------------------------------------------------- DataFrame model
None == [is_none |-> TRUE, columns |-> {}, rows |-> <<>>]

DataFrame(cols, rws) == [is_none |-> FALSE, columns |-> cols, rows |-> rws]

NumericColumns ==
    {"id", "account_id", "account_id_x", "account_id_y", "accountHolder_id",
     "transferringAccount_id", "acquiringAccount_id",
     "transferringAccountHolder_id", "acquiringAccountHolder_id",
     "transferringEntity_id", "acquiringEntity_id",
     "datetime",
     "transactionTypeMain", "transactionTypeSupplementary", "unitType"}

\* the missing value of a column; an amount is never missing, 0 is the amount zero
NullOf(c) == IF c \in NumericColumns THEN NaN ELSE NoText

IsNull(c, v) == v = NullOf(c)

MapRows(rws, F(_)) == [i \in 1..Len(rws) |-> F(rws[i])]

\* the concatenation of a sequence of sequences, by halves
RECURSIVE Flatten(_)
Flatten(ss) ==
    IF ss = <<>> THEN <<>>
    ELSE IF Len(ss) = 1 THEN ss[1]
    ELSE Flatten(SubSeq(ss, 1, Len(ss) \div 2)) \o Flatten(SubSeq(ss, Len(ss) \div 2 + 1, Len(ss)))

\* df[cols].copy()
SelectColumns(df, cols) ==
    DataFrame(cols, MapRows(df.rows, LAMBDA r : [c \in cols |-> r[c]]))

\* df.rename(columns=ren): ren is a function from old labels to new labels
NewLabel(ren, c) == IF c \in DOMAIN ren THEN ren[c] ELSE c

Rename(df, ren) ==
    LET newcols == {NewLabel(ren, c) : c \in df.columns}
        Old(n) == CHOOSE c \in df.columns : NewLabel(ren, c) = n
    IN  DataFrame(newcols, MapRows(df.rows, LAMBDA r : [n \in newcols |-> r[Old(n)]]))

\* df.drop(columns=cols)
DropColumns(df, cols) == SelectColumns(df, df.columns \ cols)

\* df.dropna(): drop the rows with a missing value in any column
DropNa(df) ==
    DataFrame(df.columns,
              SelectSeq(df.rows, LAMBDA r : \A c \in df.columns : ~IsNull(c, r[c])))

\* df[col] = value
AssignColumn(df, col, V(_)) ==
    LET newcols == df.columns \cup {col}
    IN  DataFrame(newcols,
                  MapRows(df.rows, LAMBDA r : [c \in newcols |-> IF c = col THEN V(r) ELSE r[c]]))

\* df[mask]
Filter(df, Keep(_)) == DataFrame(df.columns, SelectSeq(df.rows, Keep))

\* pd.concat(tables): None entries are dropped silently
ConcatTables(tables) ==
    LET present == SelectSeq(tables, LAMBDA t : ~t.is_none)
    IN  DataFrame(UNION {present[i].columns : i \in 1..Len(present)},
                  Flatten([i \in 1..Len(present) |-> present[i].rows]))

\* left.merge(right, how, left_on, right_on, indicator): rows in the order of
\* the left keys; a label present on both sides, other than a shared key,
\* gets the suffixes _x and _y (lx, ry give the suffixed labels).  indicator
\* is the set holding the indicator column's label, empty without indicator.
Merge(left, right, how, left_on, right_on, indicator, lx, ry) ==
    LET shared == IF left_on = right_on THEN {left_on} ELSE {}
        overlap == (left.columns \cap right.columns) \ shared
        LLabel(c) == IF c \in overlap THEN lx[c] ELSE c
        RLabel(c) == IF c \in overlap THEN ry[c] ELSE c
        lcols == {LLabel(c) : c \in left.columns}
        rcols == {RLabel(c) : c \in right.columns \ shared}
        icols == indicator
        cols == lcols \cup rcols \cup icols
        LOld(n) == CHOOSE c \in left.columns : LLabel(c) = n
        ROld(n) == CHOOSE c \in right.columns \ shared : RLabel(c) = n
        Both(l, r) == [n \in cols |-> IF n \in icols THEN <<"both">>
                                      ELSE IF n \in lcols THEN l[LOld(n)]
                                      ELSE r[ROld(n)]]
        LeftOnly(l) == [n \in cols |-> IF n \in icols THEN <<"left_only">>
                                       ELSE IF n \in lcols THEN l[LOld(n)]
                                       ELSE NullOf(ROld(n))]
        Matches(l) == SelectSeq(right.rows, LAMBDA r : r[right_on] = l[left_on])
        Joined(l) == IF Matches(l) # <<>>
                     THEN MapRows(Matches(l), LAMBDA r : Both(l, r))
                     ELSE IF how = "left" THEN <<LeftOnly(l)>> ELSE <<>>
    IN  DataFrame(cols, Flatten(MapRows(left.rows, Joined)))

SuffixX == [account_id |-> "account_id_x"]
SuffixY == [account_id |-> "account_id_y"]

\* --------------------------------------------------------------- state
VARIABLES
    account_db,                 \* Account table: id -> [accountHolder_id, companyRegistrationNumber]
    holder_db,                  \* AccountHolder table: the set of holder ids
    transaction_db,             \* the registry's transactions, in time order
    null_names,                 \* ids of the accounts and holders whose name is NULL
    module_state,               \* "unloaded", "loaded", "failed"
    session,                    \* dal.session: "none" or "open"
    account_to_accountHolder,   \* module-level mapping DataFrame
    self,                       \* the EntityConnexion object
    pc,                         \* position of the analysis
    raised,                     \* the exception that ended the last call, or "none"
    warned,                     \* warnings emitted by the analysis
    transaction_tables,         \* get_transactions' local list of per-account tables
    plot,                       \* plot_arrows' graph, node attributes and layout
    last_call                   \* the method that ran last

vars == <<account_db, holder_db, transaction_db, null_names, module_state, session,
          account_to_accountHolder, self, pc, raised, warned,
          transaction_tables, plot, last_call>>

db_vars == <<account_db, holder_db, transaction_db, null_names>>
module_vars == <<module_state, session, account_to_accountHolder>>

AccountName(a) == IF a = NaN \/ a \in null_names THEN NoText ELSE <<"account", a>>
AccountType(a) == IF a = NaN THEN NoText ELSE <<"accountType", a % 2>>
HolderName(h) == IF h \in null_names THEN NoText ELSE <<"holder", h>>
EmptyString == <<"">>

NoObject == [entity_type |-> "", entity_id |-> NaN, accounts |-> <<>>,
             transactions |-> None, entity_name |-> NoText]

NoPlot == [nodes |-> <<>>, edges |-> <<>>, attrs |-> <<>>, width |-> <<>>,
           list_of_nodes |-> <<>>, pos |-> <<>>, pos_attrs |-> <<>>, saved |-> FALSE]

\* ------------------------------------------------- module import (16-46)
\* session.query(Account.id, Account.accountHolder_id)
AccountQuery ==
    DataFrame({"id", "accountHolder_id"},
              [a \in AccountIds |-> [id |-> a, accountHolder_id |-> account_db[a].accountHolder_id]])

RECURSIVE SortedSeq(_)
SortedSeq(S) ==
    IF S = {} THEN <<>>
    ELSE LET m == CHOOSE x \in S : \A y \in S : x <= y
         IN  <<m>> \o SortedSeq(S \ {m})

\* pd.DataFrame(session.query(AccountHolder.id, AccountHolder.name).all()):
\* an empty result list gives a DataFrame without columns
HolderQuery ==
    IF holder_db = {} THEN DataFrame({}, <<>>)
    ELSE DataFrame({"id", "name"},
                   MapRows(SortedSeq(holder_db), LAMBDA h : [id |-> h, name |-> HolderName(h)]))

\* map_account_to_accountHolder: the merge with the holder table is an inner
\* merge; it raises KeyError when the holder table has no accountHolder_id column
map_raises ==
    "accountHolder_id" \notin
        Rename(HolderQuery, [id |-> "accountHolder_id", name |-> "accountHolder_name"]).columns

map_account_to_accountHolder ==
    LET mapping == Rename(DropNa(AccountQuery), [id |-> "account_id"])
        account_holder_id_to_name ==
            Rename(HolderQuery, [id |-> "accountHolder_id", name |-> "accountHolder_name"])
    IN  Merge(mapping, account_holder_id_to_name, "inner",
              "accountHolder_id", "accountHolder_id", {}, SuffixX, SuffixY)

ImportModule ==
    /\ module_state = "unloaded"
    /\ session' = "open"
    /\ IF map_raises
       THEN /\ module_state' = "failed"
            /\ UNCHANGED account_to_accountHolder
       ELSE /\ module_state' = "loaded"
            /\ account_to_accountHolder' = map_account_to_accountHolder
    /\ UNCHANGED <<db_vars, self, pc, raised, warned, transaction_tables, plot, last_call>>

\* ------------------------------------------------------ __init__ (54-66)
EntityTypes == {EntityTypeAccount, EntityTypeAccountHolder, EntityTypeCompany}

EntityIdsOf(entity_type) ==
    IF entity_type = EntityTypeAccount THEN 1..(MaxAccount + 1)
    ELSE IF entity_type = EntityTypeAccountHolder THEN HolderIds
    ELSE CompanyIds

EntityConnexion(entity_type, entity_id) ==
    /\ module_state = "loaded"
    /\ pc \in {"idle", "done", "raised"}
    /\ IF entity_type \notin EntityTypes
       THEN /\ self' = NoObject
            /\ pc' = "raised"
            /\ raised' = "ValueError"
       ELSE /\ self' = [entity_type |-> entity_type, entity_id |-> entity_id,
                        accounts |-> <<>>, transactions |-> None, entity_name |-> NoText]
            /\ pc' = "created"
            /\ raised' = "none"
    /\ warned' = {}
    /\ transaction_tables' = <<>>
    /\ plot' = NoPlot
    /\ last_call' = "__init__"
    /\ UNCHANGED <<db_vars, module_vars>>

\* -------------------------------------------------- get_accounts (74-88)
AccountsWhere(Test(_)) == SelectSeq([a \in AccountIds |-> a], Test)

\* line 82: .first() of the holder query is None
HolderMissing(entity_id) == entity_id \notin holder_db

get_accounts ==
    /\ pc = "created"
    /\ LET accounts ==
               IF self.entity_type = EntityTypeAccount
               THEN AccountsWhere(LAMBDA a : a = self.entity_id)
               ELSE IF self.entity_type = EntityTypeAccountHolder
               THEN AccountsWhere(LAMBDA a : account_db[a].accountHolder_id = self.entity_id)
               ELSE AccountsWhere(LAMBDA a : account_db[a].companyRegistrationNumber = self.entity_id)
       IN  IF self.entity_type = EntityTypeAccount /\ accounts = <<>>
           THEN \* self.accounts[0] on an empty list
                /\ self' = [self EXCEPT !.accounts = accounts]
                /\ pc' = "raised"
                /\ raised' = "IndexError"
           ELSE IF self.entity_type = EntityTypeAccountHolder /\ HolderMissing(self.entity_id)
           THEN \* .first() is None
                /\ self' = [self EXCEPT !.accounts = accounts]
                /\ pc' = "raised"
                /\ raised' = "AttributeError"
           ELSE /\ self' = [self EXCEPT !.accounts = accounts,
                                        !.entity_name =
                                            IF self.entity_type = EntityTypeAccount
                                            THEN AccountName(accounts[1])
                                            ELSE IF self.entity_type = EntityTypeAccountHolder
                                            THEN HolderName(self.entity_id)
                                            ELSE EmptyString]
                /\ pc' = "accounts"
                /\ UNCHANGED raised
    /\ last_call' = "get_accounts"
    /\ UNCHANGED <<db_vars, module_vars, warned, transaction_tables, plot>>

\* ------------------------------------- Account.get_transactions (eutl_orm)
\* The transactions of the registry that have the account on either side, in
\* time order, indexed by their date; None when there are none.  complete
\* tells whether the table carries every column of the registry export.
RawColumns(complete) ==
    {"index", "amount", "amount_directed",
     "transferringAccount_id", "transferringAccountName", "transferringAccountType",
     "acquiringAccount_id", "acquiringAccountName", "acquiringAccountType",
     "transactionTypeMain", "transactionTypeSupplementary"}
    \cup (IF complete THEN {"unitType"} ELSE {})

RawRow(account, i) ==
    LET t == transaction_db[i]
    IN  [index |-> i,
         amount |-> t.amount,
         amount_directed |-> IF t.acquiringAccount_id = account THEN t.amount ELSE 0 - t.amount,
         transferringAccount_id |-> t.transferringAccount_id,
         transferringAccountName |-> AccountName(t.transferringAccount_id),
         transferringAccountType |-> AccountType(t.transferringAccount_id),
         acquiringAccount_id |-> t.acquiringAccount_id,
         acquiringAccountName |-> AccountName(t.acquiringAccount_id),
         acquiringAccountType |-> AccountType(t.acquiringAccount_id),
         transactionTypeMain |-> 1,
         transactionTypeSupplementary |-> 1,
         unitType |-> 1]

Account_get_transactions(account, complete) ==
    LET involved == SelectSeq([i \in 1..Len(transaction_db) |-> i],
                              LAMBDA i : \/ transaction_db[i].transferringAccount_id = account
                                         \/ transaction_db[i].acquiringAccount_id = account)
    IN  IF involved = <<>> THEN None
        ELSE SelectColumns(DataFrame(RawColumns(TRUE), MapRows(involved, LAMBDA i : RawRow(account, i))),
                           RawColumns(complete))

\* ---------------------------------------------- get_transactions (90-170)
column_list ==
    {"datetime", "amount",
     "transferringAccount_id", "transferringAccountName", "transferringAccountType",
     "acquiringAccount_id", "acquiringAccountName", "acquiringAccountType",
     "transactionTypeMain", "transactionTypeSupplementary", "unitType"}

Col ==
    [transferring |->
        [Account_id |-> "transferringAccount_id", AccountName |-> "transferringAccountName",
         AccountType |-> "transferringAccountType",
         AccountHolder_id |-> "transferringAccountHolder_id",
         AccountHolder_name |-> "transferringAccountHolder_name",
         Entity_id |-> "transferringEntity_id", Entity_name |-> "transferringEntity_name",
         Entity_type |-> "transferringEntity_type", mapped |-> "transferring_mapped"],
     acquiring |->
        [Account_id |-> "acquiringAccount_id", AccountName |-> "acquiringAccountName",
         AccountType |-> "acquiringAccountType",
         AccountHolder_id |-> "acquiringAccountHolder_id",
         AccountHolder_name |-> "acquiringAccountHolder_name",
         Entity_id |-> "acquiringEntity_id", Entity_name |-> "acquiringEntity_name",
         Entity_type |-> "acquiringEntity_type", mapped |-> "acquiring_mapped"]]

\* lines 117-119 with the name and type targets exchanged
RenameAccountToEntity_mutant(df, side) ==
    Rename(df, (Col[side].Account_id :> Col[side].Entity_id)
               @@ (Col[side].AccountName :> Col[side].Entity_type)
               @@ (Col[side].AccountType :> Col[side].Entity_name))

\* lines 114-119: rename the account columns of both sides to entity columns
RenameAccountToEntity(df, side) ==
    Rename(df, (Col[side].Account_id :> Col[side].Entity_id)
               @@ (Col[side].AccountName :> Col[side].Entity_name)
               @@ (Col[side].AccountType :> Col[side].Entity_type))

rekey_Account(transactions) ==
    RenameAccountToEntity(RenameAccountToEntity(transactions, sides[1]), sides[2])

\* lines 123-126 renaming the module-level frame itself, without .copy()
MappingAfterRekey_mutant(mapping) ==
    Rename(mapping, ("accountHolder_id" :> Col[sides[1]].AccountHolder_id)
                    @@ ("accountHolder_name" :> Col[sides[1]].AccountHolder_name))

\* lines 123-126: the rename in place works on a copy, the module-level
\* frame is as it was
MappingAfterRekey(mapping) == mapping

\* lines 123-135: left merge of one side's account id with the mapping
MergeSide(transactions, side) ==
    LET account_to_accountHolder_temp ==
            Rename(account_to_accountHolder,
                   ("accountHolder_id" :> Col[side].AccountHolder_id)
                   @@ ("accountHolder_name" :> Col[side].AccountHolder_name))
    IN  Merge(transactions, account_to_accountHolder_temp, "left",
              Col[side].Account_id, "account_id", {Col[side].mapped}, SuffixX, SuffixY)

\* line 137 with .any() in place of .all()
AllMapped_mutant(df, side) ==
    \E i \in 1..Len(df.rows) : df.rows[i][Col[side].mapped] = <<"both">>

\* line 137: (transactions[f"{side}_mapped"] == "both").all()
AllMapped(df, side) ==
    \A i \in 1..Len(df.rows) : df.rows[i][Col[side].mapped] = <<"both">>

\* a != b holding of every pair
NotEqual_mutant(a, b) == TRUE

\* a != b on two numeric columns: NaN differs from everything
NotEqual(a, b) == a = NaN \/ b = NaN \/ a # b

\* line 142 comparing the accounts instead of their holders
DiscardInternal_mutant(df) ==
    Filter(df, LAMBDA r : NotEqual(r["acquiringAccount_id"], r["transferringAccount_id"]))

\* line 142
DiscardInternal(df) ==
    Filter(df, LAMBDA r : NotEqual(r["acquiringAccountHolder_id"], r["transferringAccountHolder_id"]))

\* lines 145-158, on the table merged on both sides
HolderToEntity(df) ==
    LET dropped == DropColumns(df, {"acquiringAccount_id", "acquiringAccountName", "acquiringAccountType",
                                    "transferringAccount_id", "transferringAccountName",
                                    "acquiringAccountType"})
        RenameSide(d, side) ==
            Rename(d, (Col[side].AccountHolder_id :> Col[side].Entity_id)
                      @@ (Col[side].AccountHolder_name :> Col[side].Entity_name))
        renamed == RenameSide(RenameSide(dropped, sides[1]), sides[2])
        typed1 == AssignColumn(renamed, Col[sides[1]].Entity_type, LAMBDA r : NoText)
    IN  AssignColumn(typed1, Col[sides[2]].Entity_type, LAMBDA r : NoText)

rekey_AccountHolder(transactions) ==
    HolderToEntity(DiscardInternal(MergeSide(MergeSide(transactions, sides[1]), sides[2])))

\* the outcome of get_transactions on the fetched tables
get_transactions_result(tables) ==
    LET concatenated == ConcatTables(tables)
        transactions == AssignColumn(concatenated, "datetime", LAMBDA r : r["index"])
        selected == SelectColumns(transactions, column_list)
        merged1 == MergeSide(selected, sides[1])
    IN  IF Len(tables) = 1 /\ tables[1].is_none
        THEN [raised |-> "none", warned |-> {}, transactions |-> None,
              mapping |-> account_to_accountHolder]
        ELSE IF \A i \in 1..Len(tables) : tables[i].is_none
        THEN \* pd.concat of an empty list or of None objects only
             [raised |-> "ValueError", warned |-> {}, transactions |-> None,
              mapping |-> account_to_accountHolder]
        ELSE IF ~(column_list \subseteq transactions.columns)
        THEN [raised |-> "none", warned |-> {"required columns missing"}, transactions |-> None,
              mapping |-> account_to_accountHolder]
        ELSE IF self.entity_type = EntityTypeAccount
        THEN [raised |-> "none", warned |-> {}, transactions |-> rekey_Account(selected),
              mapping |-> account_to_accountHolder]
        ELSE IF self.entity_type = EntityTypeAccountHolder
        THEN IF ~AllMapped(merged1, sides[1]) \/ ~AllMapped(MergeSide(merged1, sides[2]), sides[2])
             THEN [raised |-> "AssertionError", warned |-> {}, transactions |-> None,
                   mapping |-> MappingAfterRekey(account_to_accountHolder)]
             ELSE [raised |-> "none", warned |-> {}, transactions |-> rekey_AccountHolder(selected),
                   mapping |-> MappingAfterRekey(account_to_accountHolder)]
        ELSE \* Company: pass
             [raised |-> "none", warned |-> {}, transactions |-> selected,
              mapping |-> account_to_accountHolder]

get_transactions(complete) ==
    /\ pc = "accounts"
    /\ LET tables == MapRows(self.accounts, LAMBDA a : Account_get_transactions(a, complete))
           result == get_transactions_result(tables)
       IN  /\ transaction_tables' = tables
           /\ self' = [self EXCEPT !.transactions = result.transactions]
           /\ raised' = result.raised
           /\ warned' = warned \cup result.warned
           /\ pc' = IF result.raised = "none" THEN "transactions" ELSE "raised"
           /\ account_to_accountHolder' = result.mapping
    /\ last_call' = "get_transactions"
    /\ UNCHANGED <<db_vars, module_state, session, plot>>

\* ------------------------------------------------ plot_arrows (172-271)
EntityColumns ==
    {"transferringEntity_id", "transferringEntity_name", "transferringEntity_type",
     "acquiringEntity_id", "acquiringEntity_name", "acquiringEntity_type"}

\* transaction_table[f'{side}Entity_id'].isnull().any()
AnyNull(df, side) ==
    \E i \in 1..Len(df.rows) : df.rows[i][Col[side].Entity_id] = NaN

\* lines 187-189: the fill values name the transferring columns only
fillval ==
    [transferringEntity_id |-> FillId,
     transferringEntity_name |-> Unknown,
     transferringEntity_type |-> Unknown]

FillNa(df, value) ==
    DataFrame(df.columns,
              MapRows(df.rows, LAMBDA r : [c \in df.columns |->
                                  IF c \in DOMAIN value /\ IsNull(c, r[c]) THEN value[c] ELSE r[c]]))

\* lines 184-189, both passes of the loop over the sides
FillMissing(df) ==
    LET pass1 == IF AnyNull(df, sides[1]) THEN FillNa(df, fillval) ELSE df
    IN  IF AnyNull(pass1, sides[2]) THEN FillNa(pass1, fillval) ELSE pass1

FillWarnings(df) ==
    (IF AnyNull(df, sides[1]) THEN {"transferringEntity IDs missing"} ELSE {})
    \cup (IF AnyNull(df, sides[2]) THEN {"acquiringEntity IDs missing"} ELSE {})

\* membership of a node in a container of ids: NaN equals nothing, itself included
Has(container, n) == n # NaN /\ \E i \in 1..Len(container) : container[i] = n

SameId(a, b) == a # NaN /\ a = b

\* nx.from_pandas_edgelist(..., edge_attr='amount', create_using=nx.DiGraph()):
\* for every row in turn g.add_edge(s, t) and g[s][t].update(amount).  A node
\* is inserted where its id occurs first, and the amount of an edge is
\* overwritten by every later row of its pair.  G.edges goes through the nodes
\* in their order and, for each node, through its successors in the order in
\* which their edges were first added.
from_pandas_edgelist(df) ==
    LET n == Len(df.rows)
        Source(i) == df.rows[i]["transferringEntity_id"]
        Target(i) == df.rows[i]["acquiringEntity_id"]
        SamePair(i, j) == SameId(Source(i), Source(j)) /\ SameId(Target(i), Target(j))
        Endpoint(p) == IF p % 2 = 1 THEN Source((p + 1) \div 2) ELSE Target(p \div 2)
        new_nodes == SelectSeq([p \in 1..(2 * n) |-> p],
                               LAMBDA p : \A q \in 1..(p - 1) : ~SameId(Endpoint(q), Endpoint(p)))
        new_edges == SelectSeq([i \in 1..n |-> i],
                               LAMBDA i : \A j \in 1..(i - 1) : ~SamePair(j, i))
        Last(i) == CHOOSE j \in i..n : (j = i \/ SamePair(i, j))
                                       /\ \A k \in (j + 1)..n : ~SamePair(i, k)
        From(p, i) == p = 2 * i - 1 \/ SameId(Endpoint(p), Source(i))
        edge_view == Flatten([k \in 1..Len(new_nodes) |->
                                 SelectSeq(new_edges, LAMBDA i : From(new_nodes[k], i))])
    IN  [nodes |-> MapRows(new_nodes, Endpoint),
         edges |-> MapRows(edge_view, LAMBDA i : [source |-> Source(i), target |-> Target(i),
                                                  amount |-> df.rows[Last(i)]["amount"]])]

color_legend == [this |-> "green", trader |-> "violet", sender |-> "blue", receiver |-> "red"]

\* create_entity_information_table (273-287) read with .loc[node]: the name
\* and type recorded for the id on either side
EntityInformation(df, node) ==
    LET mapping == MapRows(df.rows, LAMBDA r : [entity_id |-> r["transferringEntity_id"],
                                                entity_name |-> r["transferringEntity_name"],
                                                entity_type |-> r["transferringEntity_type"]])
                   \o MapRows(df.rows, LAMBDA r : [entity_id |-> r["acquiringEntity_id"],
                                                   entity_name |-> r["acquiringEntity_name"],
                                                   entity_type |-> r["acquiringEntity_type"]])
        i == CHOOSE i \in 1..Len(mapping) :
                 /\ mapping[i].entity_id = node
                 /\ \A j \in 1..(i - 1) : mapping[j].entity_id # node
    IN  mapping[i]

\* lines 219-230; a node found on neither side keeps no trader_type
trader_type(df, node, this_node) ==
    LET trans_entities == MapRows(df.rows, LAMBDA r : r["transferringEntity_id"])
        acqui_entities == MapRows(df.rows, LAMBDA r : r["acquiringEntity_id"])
    IN  IF node # NaN /\ node = this_node THEN "this"
        ELSE IF Has(trans_entities, node) /\ Has(acqui_entities, node) THEN "trader"
        ELSE IF Has(trans_entities, node) THEN "sender"
        ELSE IF Has(acqui_entities, node) THEN "receiver"
        ELSE ""

NodeAttributes(df, node, this_node) ==
    LET role == trader_type(df, node, this_node)
    IN  [name |-> EntityInformation(df, node).entity_name,
         id |-> node,
         type |-> EntityInformation(df, node).entity_type,
         trader_type |-> role,
         color |-> IF role = "" THEN "" ELSE color_legend[role]]

\* lines 235-238: width = width_thickest_edge * amount / max_width + width_thinnest_edge.
\* A decimal is the fraction <<numerator, denominator>>: width_thinnest_edge
\* is 0.05, and a width is the fraction of the sum, not reduced.
width_thinnest_edge == <<5, 100>>

width_thickest_edge == 3

MaxAmountOf(edges) ==
    CHOOSE m \in {edges[i].amount : i \in 1..Len(edges)} :
        \A i \in 1..Len(edges) : edges[i].amount <= m

EdgeWidths(edges) ==
    IF MaxAmountOf(edges) = 0
    THEN \* the division by max_width at line 238
         [raised |-> "ZeroDivisionError", width |-> <<>>]
    ELSE [raised |-> "none",
          width |-> [i \in 1..Len(edges) |->
                        <<width_thickest_edge * edges[i].amount * width_thinnest_edge[2]
                          + width_thinnest_edge[1] * MaxAmountOf(edges),
                          MaxAmountOf(edges) * width_thinnest_edge[2]>>]]

\* line 241: sorted(zip(trader types, nodes)) orders by the label, then by the id
LabelRank == [receiver |-> 1, sender |-> 2, this |-> 3, trader |-> 4]

Before(a, b) ==
    \/ LabelRank[a.trader_type] < LabelRank[b.trader_type]
    \/ a.trader_type = b.trader_type /\ a.id < b.id

SortByTraderType(attrs) ==
    [k \in 1..Len(attrs) |->
        LET i == CHOOSE i \in 1..Len(attrs) :
                     Cardinality({j \in 1..Len(attrs) : Before(attrs[j], attrs[i])}) = k - 1
        IN  attrs[i].id]

Remove(list, x) == SelectSeq(list, LAMBDA y : y # x)

\* nx.circular_layout(list_of_nodes, scale=2): node k of n on the circle, a
\* single node at the centre; pos[this_node] = origin
circular_layout(list_of_nodes) ==
    [i \in 1..Len(list_of_nodes) |->
        [node |-> list_of_nodes[i],
         at |-> IF Len(list_of_nodes) = 1 THEN <<"origin">>
                ELSE <<"circle", i, Len(list_of_nodes)>>]]

\* line 251: the label anchor is the node's position with y lowered by .25,
\* the fraction <<25, 100>>
label_offset == <<25, 100>>

\* line 194 with >= in place of >
TooManyNodes_mutant(g) == Len(g.nodes) >= NodeLimit

\* line 194: len(transaction_graph) > 40
TooManyNodes(g) == Len(g.nodes) > NodeLimit

plot_arrows_result(table, this_node) ==
    LET transaction_table == FillMissing(table)
        fill_warned == FillWarnings(table)
        g == from_pandas_edgelist(transaction_table)
        attrs == MapRows(g.nodes, LAMBDA n : NodeAttributes(transaction_table, n, this_node))
        built == [NoPlot EXCEPT !.nodes = g.nodes, !.edges = g.edges]
        with_attrs == [built EXCEPT !.attrs = attrs]
        with_width == [with_attrs EXCEPT !.width = EdgeWidths(g.edges).width]
        list_of_nodes == Remove(SortByTraderType(attrs), this_node)
        pos == Append(circular_layout(list_of_nodes), [node |-> this_node, at |-> <<"origin">>])
        pos_attrs == MapRows(pos, LAMBDA p : [node |-> p.node, at |-> p.at, below |-> label_offset])
    IN  IF table.is_none
        THEN [raised |-> "none", warned |-> {}, table |-> table, plot |-> NoPlot]
        ELSE IF ~(EntityColumns \subseteq table.columns)
        THEN [raised |-> "KeyError", warned |-> {}, table |-> table, plot |-> NoPlot]
        ELSE IF TooManyNodes(g)
        THEN [raised |-> "none", warned |-> fill_warned \cup {"Too many nodes"},
              table |-> transaction_table, plot |-> built]
        ELSE IF g.edges = <<>>
        THEN \* max() of an empty list
             [raised |-> "ValueError", warned |-> fill_warned,
              table |-> transaction_table, plot |-> with_attrs]
        ELSE IF EdgeWidths(g.edges).raised # "none"
        THEN [raised |-> EdgeWidths(g.edges).raised, warned |-> fill_warned,
              table |-> transaction_table, plot |-> with_attrs]
        ELSE IF \E i \in 1..Len(attrs) : attrs[i].trader_type = ""
        THEN \* attrs[n]['trader_type'] of a node without one
             [raised |-> "KeyError", warned |-> fill_warned,
              table |-> transaction_table, plot |-> with_width]
        ELSE IF ~Has(g.nodes, this_node)
        THEN \* list_of_nodes.remove(this_node)
             [raised |-> "ValueError", warned |-> fill_warned,
              table |-> transaction_table, plot |-> with_width]
        ELSE [raised |-> "none", warned |-> fill_warned, table |-> transaction_table,
              plot |-> [with_width EXCEPT !.list_of_nodes = list_of_nodes, !.pos = pos,
                                          !.pos_attrs = pos_attrs, !.saved = TRUE]]

plot_arrows ==
    /\ pc = "transactions"
    /\ LET result == plot_arrows_result(self.transactions, self.entity_id)
       IN  /\ plot' = result.plot
           /\ self' = [self EXCEPT !.transactions = result.table]
           /\ raised' = result.raised
           /\ warned' = warned \cup result.warned
           /\ pc' = IF result.raised = "none" THEN "done" ELSE "raised"
    /\ last_call' = "plot_arrows"
    /\ UNCHANGED <<db_vars, module_vars, transaction_tables>>

\* ----------------------------------------------------------------- Init
\* The registries with any holder table or any assignment of company numbers
\* hold at most one transaction between the first two accounts.  The standard
\* registry (accounts in pairs under the registered holders, no company
\* number) holds every short ledger of unit amounts between its accounts and a
\* missing account, every short ledger of any amounts between its first and
\* its last account, zero included, and the star-shaped ledgers; every name is
\* present.  With a NULL name for the first account or the first holder it
\* holds at most one transaction.
Repositories ==
    [AccountIds -> [accountHolder_id : HolderIds \cup {NaN},
                    companyRegistrationNumber : CompanyIds \cup {NaN}]]

NoCompany(db) == \A a \in AccountIds : db[a].companyRegistrationNumber = NaN

WellFormed(db, holders) ==
    /\ holders = HolderIds
    /\ \A a \in AccountIds : db[a].accountHolder_id # NaN
    /\ \A a \in AccountIds \ {1} : db[a - 1].accountHolder_id <= db[a].accountHolder_id

StandardRegistry ==
    [a \in AccountIds |->
        [accountHolder_id |-> IF 11 + ((a - 1) \div 2) \in HolderIds
                              THEN 11 + ((a - 1) \div 2) ELSE 10 + MaxHolder,
         companyRegistrationNumber |-> NaN]]

Transfers(ids, amounts) ==
    {x \in [transferringAccount_id : ids, acquiringAccount_id : ids, amount : amounts] :
        x.transferringAccount_id # x.acquiringAccount_id}

Ledgers(pool, n) == UNION {[1..k -> pool] : k \in 0..n}

\* account 1 trading with n distinct other accounts, alternately as sender and receiver
StarLedger(n) ==
    [i \in 1..n |-> IF i % 2 = 1
                    THEN [transferringAccount_id |-> 1, acquiringAccount_id |-> StarAccount(i), amount |-> 1]
                    ELSE [transferringAccount_id |-> StarAccount(i), acquiringAccount_id |-> 1, amount |-> 1]]

Init ==
    /\ account_db \in Repositories
    /\ holder_db \in SUBSET HolderIds
    /\ null_names \in SUBSET {1, 11}
    /\ \/ /\ NoCompany(account_db) \/ WellFormed(account_db, holder_db)
          /\ transaction_db \in Ledgers(Transfers(1..2, {1}), 1)
          /\ null_names = {}
       \/ /\ account_db = StandardRegistry
          /\ holder_db = HolderIds
          /\ transaction_db \in Ledgers(Transfers(AccountIds \cup {NaN}, {1}), MaxRows)
                                \cup Ledgers(Transfers({1, MaxAccount}, 0..MaxAmount), MaxRows)
                                \cup {StarLedger(n) : n \in 0..MaxStar}
          /\ null_names = {}
       \/ /\ account_db = StandardRegistry
          /\ holder_db = HolderIds
          /\ transaction_db \in Ledgers(Transfers(1..2, {1}), 1)
          /\ null_names # {}
    /\ module_state = "unloaded"
    /\ session = "none"
    /\ account_to_accountHolder = None
    /\ self = NoObject
    /\ pc = "idle"
    /\ raised = "none"
    /\ warned = {}
    /\ transaction_tables = <<>>
    /\ plot = NoPlot
    /\ last_call = "none"

Next ==
    \/ ImportModule
    \/ \E entity_type \in EntityTypes \cup {"Installation"} :
           \E entity_id \in EntityIdsOf(entity_type) : EntityConnexion(entity_type, entity_id)
    \/ get_accounts
    \/ \E complete \in BOOLEAN : get_transactions(complete)
    \/ plot_arrows

Spec == Init /\ [][Next]_vars

\* ------------------------------------------------------------ properties
\* the rows of the fetched per-account tables, concatenated
RawRows == Flatten([i \in 1..Len(transaction_tables) |-> transaction_tables[i].rows])

AllNone == \A i \in 1..Len(transaction_tables) : transaction_tables[i].is_none

RequiredColumnsPresent ==
    /\ ~AllNone
    /\ (column_list \ {"datetime"}) \subseteq ConcatTables(transaction_tables).columns

\* the holder the registry records for an account, NaN when there is none
RegistryHolder(a) ==
    IF a \in AccountIds /\ account_db[a].accountHolder_id \in holder_db
    THEN account_db[a].accountHolder_id
    ELSE NaN

\* plot_arrows ran on a table with entity columns, so the graph was made
GraphMade ==
    /\ last_call = "plot_arrows"
    /\ ~self.transactions.is_none
    /\ EntityColumns \subseteq self.transactions.columns

Refused == "Too many nodes" \in warned

\* the sum of the amounts of the rows lo..hi with the pair (s, t), by halves
RECURSIVE SumAmount(_, _, _, _, _)
SumAmount(rws, lo, hi, s, t) ==
    IF lo > hi THEN 0
    ELSE IF lo = hi
    THEN IF rws[lo]["transferringEntity_id"] = s /\ rws[lo]["acquiringEntity_id"] = t
         THEN rws[lo]["amount"] ELSE 0
    ELSE SumAmount(rws, lo, (lo + hi) \div 2, s, t) + SumAmount(rws, (lo + hi) \div 2 + 1, hi, s, t)

IsEdge(k, s, t) == plot.edges[k].source = s /\ plot.edges[k].target = t

\* C1: for every ordered pair (a, b) of present ids in the normalized table
\* the graph made by plot_arrows has exactly one edge a->b, and its amount is
\* the sum of the amounts of all rows with that pair.
C1_EdgeWeightIsSum ==
    GraphMade =>
        \A i \in 1..Len(self.transactions.rows) :
            LET s == self.transactions.rows[i]["transferringEntity_id"]
                t == self.transactions.rows[i]["acquiringEntity_id"]
            IN  (s # NaN /\ t # NaN) =>
                    \E k \in 1..Len(plot.edges) :
                        /\ IsEdge(k, s, t)
                        /\ \A j \in 1..Len(plot.edges) : IsEdge(j, s, t) => j = k
                        /\ plot.edges[k].amount
                           = SumAmount(self.transactions.rows, 1, Len(self.transactions.rows), s, t)

\* C2: a table stored by get_transactions at AccountHolder granularity has no
\* row whose two entity ids are equal, and its rows are exactly the fetched
\* rows whose two accounts belong to different holders, in the fetched order.
C2_SelfTradesRemovedOnly ==
    (self.entity_type = EntityTypeAccountHolder /\ ~self.transactions.is_none) =>
        LET rows == self.transactions.rows
            kept == SelectSeq(RawRows,
                              LAMBDA r : RegistryHolder(r["transferringAccount_id"])
                                         # RegistryHolder(r["acquiringAccount_id"]))
        IN  /\ \A i \in 1..Len(rows) :
                   rows[i]["transferringEntity_id"] # rows[i]["acquiringEntity_id"]
            /\ Len(rows) = Len(kept)
            /\ \A i \in 1..Len(rows) :
                   /\ rows[i]["datetime"] = kept[i]["index"]
                   /\ rows[i]["amount"] = kept[i]["amount"]
                   /\ rows[i]["transferringEntity_id"] = RegistryHolder(kept[i]["transferringAccount_id"])
                   /\ rows[i]["acquiringEntity_id"] = RegistryHolder(kept[i]["acquiringAccount_id"])

\* a holder's table that kept a row and lost an internal one
C2_Witness ==
    /\ self.entity_type = EntityTypeAccountHolder
    /\ ~self.transactions.is_none
    /\ Len(self.transactions.rows) >= 1
    /\ Len(RawRows) > Len(self.transactions.rows)

OnSide(label, n) ==
    \E i \in 1..Len(self.transactions.rows) : self.transactions.rows[i][label] = n

RoleOf(n) ==
    IF n = self.entity_id THEN "this"
    ELSE IF OnSide("transferringEntity_id", n) /\ OnSide("acquiringEntity_id", n) THEN "trader"
    ELSE IF OnSide("transferringEntity_id", n) THEN "sender"
    ELSE "receiver"

\* C3: in the graph made by plot_arrows every node other than the focal one
\* has the role sender, receiver or trader according to the sides its id
\* occurs on, the focal node has the role this, and every node has the colour
\* of its role.
C3_RoleOfEveryNode ==
    (GraphMade /\ ~Refused) =>
        /\ Len(plot.attrs) = Len(plot.nodes)
        /\ \A k \in 1..Len(plot.nodes) :
               /\ plot.attrs[k].trader_type = RoleOf(plot.nodes[k])
               /\ plot.attrs[k].color = color_legend[RoleOf(plot.nodes[k])]

EndpointIds ==
    {self.transactions.rows[i][c] : i \in 1..Len(self.transactions.rows),
                                    c \in {"transferringEntity_id", "acquiringEntity_id"}}

\* the number of node ids of a table: every present id once, every missing
\* id on its own
NumberOfNodeIds ==
    Cardinality(EndpointIds \ {NaN})
    + Len(SelectSeq(self.transactions.rows, LAMBDA r : r["transferringEntity_id"] = NaN))
    + Len(SelectSeq(self.transactions.rows, LAMBDA r : r["acquiringEntity_id"] = NaN))

\* C4: plot_arrows warns of too many nodes and returns, without roles, layout
\* or image, exactly when the graph has more than 40 node ids; with 40 or
\* fewer it goes on to the roles.
C4_RefusesAbove40 ==
    GraphMade =>
        /\ Refused <=> NumberOfNodeIds > 40
        /\ Refused => /\ pc = "done"
                      /\ plot.attrs = <<>>
                      /\ plot.pos = <<>>
                      /\ ~plot.saved
        /\ ~Refused => Len(plot.attrs) = NumberOfNodeIds

\* the graph of 41 nodes is refused
C4_Witness ==
    /\ GraphMade
    /\ Refused
    /\ NumberOfNodeIds = 41

NodeSet == {plot.nodes[k] : k \in 1..Len(plot.nodes)}

\* C5: when the transaction table of the focal entity is empty (none found,
\* or all removed), plot_arrows succeeds with the graph of the focal node alone,
\* no edge and no warning; the nodes of any graph it makes are the endpoint
\* ids and the focal id.
C5_EmptyTableGivesFocalNode ==
    /\ (last_call = "plot_arrows" /\ self.transactions.rows = <<>>) =>
           /\ raised = "none"
           /\ plot.nodes = <<self.entity_id>>
           /\ plot.edges = <<>>
           /\ ~Refused
    /\ GraphMade => NodeSet = EndpointIds \cup {self.entity_id}

\* C6: if every owned account reports no transactions, whatever their number,
\* get_transactions returns without an error and leaves self.transactions unset.
C6_NoTransactionsIsNoError ==
    (last_call = "get_transactions" /\ AllNone) =>
        /\ raised = "none"
        /\ pc = "transactions"
        /\ self.transactions.is_none

\* C7: at Account granularity the table stored by get_transactions has the
\* fetched rows, as many and in the same order, each with the raw account
\* id, name and type of either side as its entity id, name and type.
C7_AccountRekeyIsRename ==
    (last_call = "get_transactions" /\ self.entity_type = EntityTypeAccount
     /\ ~self.transactions.is_none) =>
        /\ Len(self.transactions.rows) = Len(RawRows)
        /\ \A i \in 1..Len(RawRows) :
               LET row == self.transactions.rows[i]
                   raw == RawRows[i]
               IN  /\ row["datetime"] = raw["index"]
                   /\ row["amount"] = raw["amount"]
                   /\ row["transferringEntity_id"] = raw["transferringAccount_id"]
                   /\ row["transferringEntity_name"] = raw["transferringAccountName"]
                   /\ row["transferringEntity_type"] = raw["transferringAccountType"]
                   /\ row["acquiringEntity_id"] = raw["acquiringAccount_id"]
                   /\ row["acquiringEntity_name"] = raw["acquiringAccountName"]
                   /\ row["acquiringEntity_type"] = raw["acquiringAccountType"]

\* an account's table of two rows
C7_Witness ==
    /\ last_call = "get_transactions"
    /\ self.entity_type = EntityTypeAccount
    /\ ~self.transactions.is_none
    /\ Len(self.transactions.rows) = 2
    /\ self.transactions.rows[1]["transferringEntity_id"] # self.transactions.rows[2]["transferringEntity_id"]

MappedAccounts ==
    {account_to_accountHolder.rows[i]["account_id"] : i \in 1..Len(account_to_accountHolder.rows)}

SomeRowUnmapped ==
    \E i \in 1..Len(RawRows) :
        \/ RawRows[i]["transferringAccount_id"] \notin MappedAccounts
        \/ RawRows[i]["acquiringAccount_id"] \notin MappedAccounts

\* C8: at AccountHolder granularity, when the re-keying meets a row whose
\* transferring or acquiring account has no entry in the mapping,
\* get_transactions raises and self.transactions stays unset.
C8_UnmappedRowRaises ==
    (last_call = "get_transactions" /\ self.entity_type = EntityTypeAccountHolder
     /\ RequiredColumnsPresent /\ SomeRowUnmapped) =>
        /\ raised = "AssertionError"
        /\ pc = "raised"
        /\ self.transactions.is_none

\* C8 as stated: at AccountHolder granularity get_transactions on any fetched
\* rows of which one has an account without entry in the mapping raises and
\* leaves self.transactions unset.
C8_UnmappedRowAlwaysRaises ==
    (last_call = "get_transactions" /\ self.entity_type = EntityTypeAccountHolder
     /\ SomeRowUnmapped) =>
        /\ raised # "none"
        /\ pc = "raised"
        /\ self.transactions.is_none

\* a row with a mapped and an unmapped account stopped the holder's analysis
C8_Witness ==
    /\ last_call = "get_transactions"
    /\ self.entity_type = EntityTypeAccountHolder
    /\ raised = "AssertionError"
    /\ \E i \in 1..Len(RawRows) :
           /\ RawRows[i]["transferringAccount_id"] \in MappedAccounts
           /\ RawRows[i]["acquiringAccount_id"] \notin MappedAccounts

\* C9: the import fails whenever an account with a holder id has a holder
\* that the holder table lacks; no mapping is built without that account.
C9_MissingHolderFailsImport ==
    (module_state # "unloaded"
     /\ \E a \in AccountIds : /\ account_db[a].accountHolder_id # NaN
                              /\ account_db[a].accountHolder_id \notin holder_db) =>
        module_state = "failed"

\* C10: at Company granularity get_transactions on fetched transactions
\* raises a not-implemented error and stores no table of account-level rows.
C10_CompanyNotImplemented ==
    (last_call = "get_transactions" /\ self.entity_type = EntityTypeCompany
     /\ RequiredColumnsPresent) =>
        /\ raised = "NotImplementedError"
        /\ self.transactions.is_none

NormalizedColumns ==
    {"datetime", "amount",
     "transferringEntity_id", "transferringEntity_name", "transferringEntity_type",
     "acquiringEntity_id", "acquiringEntity_name", "acquiringEntity_type",
     "transactionTypeMain", "transactionTypeSupplementary", "unitType"}

\* C11: a table stored by get_transactions at Account or AccountHolder
\* granularity has exactly the eleven normalized columns.
C11_NormalizedColumnSet ==
    (last_call = "get_transactions" /\ ~self.transactions.is_none
     /\ self.entity_type \in {EntityTypeAccount, EntityTypeAccountHolder}) =>
        self.transactions.columns = NormalizedColumns

\* C12: after plot_arrows has gone past the fill no row of the table has a
\* missing transferring or acquiring entity id.
C12_NoMissingIdAfterFill ==
    (last_call = "plot_arrows" /\ GraphMade) =>
        \A i \in 1..Len(self.transactions.rows) :
            /\ self.transactions.rows[i]["transferringEntity_id"] # NaN
            /\ self.transactions.rows[i]["acquiringEntity_id"] # NaN

OwnedAccounts ==
    IF self.entity_type = EntityTypeAccount
    THEN {a \in AccountIds : a = self.entity_id}
    ELSE IF self.entity_type = EntityTypeAccountHolder
    THEN {a \in AccountIds : account_db[a].accountHolder_id = self.entity_id}
    ELSE {a \in AccountIds : account_db[a].companyRegistrationNumber = self.entity_id}

NotFoundErrors == {"NotFoundError", "LookupError", "IndexError", "KeyError"}

\* C13: get_accounts ends with a not-found error for an Account id that no
\* account has and for an AccountHolder id that the holder table lacks; when it
\* returns, the owned accounts are those that pass the filter of the kind, and
\* the name is present for an Account and an AccountHolder and the empty
\* string for a Company.
C13_GetAccountsResolves ==
    last_call = "get_accounts" =>
        /\ (self.entity_type = EntityTypeAccount /\ self.entity_id \notin AccountIds) =>
               (pc = "raised" /\ raised \in NotFoundErrors)
        /\ (self.entity_type = EntityTypeAccountHolder /\ self.entity_id \notin holder_db) =>
               (pc = "raised" /\ raised \in NotFoundErrors)
        /\ pc = "accounts" =>
               /\ {self.accounts[i] : i \in 1..Len(self.accounts)} = OwnedAccounts
               /\ self.entity_type \in {EntityTypeAccount, EntityTypeAccountHolder} =>
                      self.entity_name # NoText
               /\ self.entity_type = EntityTypeCompany => self.entity_name = EmptyString

\* C14: no analysis starts before the mapping is built, and at every later
\* moment the mapping has the columns and the rows it was built with.
C14_MappingBuiltOnceAndKept ==
    /\ pc # "idle" => module_state = "loaded"
    /\ module_state = "loaded" =>
           /\ account_to_accountHolder = map_account_to_accountHolder
           /\ account_to_accountHolder.columns = {"account_id", "accountHolder_id", "accountHolder_name"}
    /\ module_state # "loaded" => account_to_accountHolder = None

\* a holder's transactions were re-keyed through the mapping
C14_Witness ==
    /\ last_call = "get_transactions"
    /\ self.entity_type = EntityTypeAccountHolder
    /\ ~self.transactions.is_none
    /\ Len(self.transactions.rows) >= 1
    /\ Len(account_to_accountHolder.rows) >= 2

AnalysisEnded ==
    /\ last_call \in {"get_accounts", "get_transactions", "plot_arrows"}
    /\ pc \in {"done", "raised"}

\* C15: when an analysis has ended, by completion, early return or failure,
\* the repository session is no longer open.
C15_SessionReleased ==
    AnalysisEnded => session # "open"

RoleRank(a) == LabelRank[a.trader_type]

\* the nodes other than the focal one, in the graph's order, sorted by role
\* label with nodes of one role kept in that order
StableByRole ==
    LET others == SelectSeq(plot.attrs, LAMBDA a : a.id # self.entity_id)
        Ahead(i, j) == \/ RoleRank(others[i]) < RoleRank(others[j])
                       \/ RoleRank(others[i]) = RoleRank(others[j]) /\ i < j
    IN  [k \in 1..Len(others) |->
            others[CHOOSE j \in 1..Len(others) :
                       Cardinality({i \in 1..Len(others) : Ahead(i, j)}) = k - 1].id]

\* C16: in a layout made by plot_arrows the focal node is at the origin and not
\* on the circle, the other nodes go round the circle in the graph's order
\* stably sorted by role label, and every label anchor is its node's position
\* lowered by the fixed offset.
C16_LayoutOrder ==
    plot.saved =>
        /\ \A i \in 1..Len(plot.list_of_nodes) : plot.list_of_nodes[i] # self.entity_id
        /\ plot.pos[Len(plot.pos)] = [node |-> self.entity_id, at |-> <<"origin">>]
        /\ plot.list_of_nodes = StableByRole
        /\ \A i \in 1..Len(plot.list_of_nodes) : plot.pos[i].node = plot.list_of_nodes[i]
        /\ Len(plot.pos_attrs) = Len(plot.pos)
        /\ \A i \in 1..Len(plot.pos) :
               plot.pos_attrs[i] = [node |-> plot.pos[i].node, at |-> plot.pos[i].at,
                                    below |-> label_offset]

FocalSides(r) ==
    {c \in {"transferringEntity_id", "acquiringEntity_id"} : r[c] = self.entity_id}

\* C17: at AccountHolder granularity every row of a stored table has the
\* focal holder on exactly one side, and plot_arrows on a table with rows
\* has the focal holder among the nodes and ends without an exception,
\* unless the amount of every edge is zero, when it ends with the division
\* by zero and never with the removal of the focal node.
C17_FocalHolderOnOneSide ==
    (self.entity_type = EntityTypeAccountHolder /\ ~self.transactions.is_none) =>
        /\ \A i \in 1..Len(self.transactions.rows) :
               Cardinality(FocalSides(self.transactions.rows[i])) = 1
        /\ (last_call = "plot_arrows" /\ self.transactions.rows # <<>>) =>
               /\ plot.edges # <<>>
               /\ raised = IF \A k \in 1..Len(plot.edges) : plot.edges[k].amount = 0
                            THEN "ZeroDivisionError" ELSE "none"
               /\ \E k \in 1..Len(plot.nodes) : plot.nodes[k] = self.entity_id

\* a holder's diagram drawn after an internal transaction was discarded
C17_Witness ==
    /\ self.entity_type = EntityTypeAccountHolder
    /\ last_call = "plot_arrows"
    /\ plot.saved
    /\ Len(self.transactions.rows) >= 1
    /\ Len(RawRows) > Len(self.transactions.rows)
====
